---- MODULE Spec2Model ----
(***************************************************************************)
(* Model of the cached chat-completion layer of Paper-Explainer:           *)
(*   src/src/cache.py             CacheResult (store wrapper, key deriver) *)
(*   src/src/chat_completions.py  CachedChatCompletions (gateway)          *)
(*                                                                         *)
(* Python values are represented as follows.                               *)
(*   - a str is a TLA+ string;                                             *)
(*   - a keyword-argument dict (kwargs) is a sequence of records           *)
(*     [k |-> name, v |-> value] in INSERTION ORDER with distinct names    *)
(*     (Python dicts keep insertion order);                                *)
(*   - a scalar extra-parameter value is [t |-> "int"|"str"|"obj", s |->   *)
(*     text]; "obj" is an object json.dumps cannot serialize;              *)
(*   - a message dict is a record [role, content];                         *)
(*   - response_format is "None" or the name of a pydantic model class     *)
(*     (a class object is truthy);                                         *)
(*   - JSON text is a sequence of string tokens.                           *)
(***************************************************************************)
EXTENDS Integers, Sequences, FiniteSets, TLC

\* ------------------------------------------------------------------ bounds

\* Number of get_completion calls in flight or finished in one behaviour.
MaxCalls == 2

\* Largest N of an upstream stub that "fails N times then succeeds".
MaxFail == 1

\* Longest messages list drawn for key derivation.
MaxMsgs == 2

\* ------------------------------------------------------- Python value sets

None == "None"

Models == {"m1", "m2"}

Message(role, content) == [role |-> role, content |-> content]

MsgHi == Message("user", "hi")

MsgYo == Message("user", "yo")

MessageDicts == {MsgHi, MsgYo}

RECURSIVE SeqsUpTo(_, _)
SeqsUpTo(S, n) ==
    IF n = 0 THEN {<<>>}
    ELSE LET shorter == SeqsUpTo(S, n - 1)
         IN  shorter \cup {Append(s, x) : s \in {t \in shorter : Len(t) = n - 1}, x \in S}

MessageLists == SeqsUpTo(MessageDicts, MaxMsgs)

\* pydantic model classes a caller may pass as response_format
SchemaClasses == {"SchemaA", "SchemaB"}

ResponseFormats == {None} \cup SchemaClasses

PyInt(s) == [t |-> "int", s |-> s]

PyStr(s) == [t |-> "str", s |-> s]

\* an object json.dumps has no encoder for
PyObj(s) == [t |-> "obj", s |-> s]

Item(k, v) == [k |-> k, v |-> v]

\* Extra keyword arguments: every insertion order of every sub-mapping of
\* {temperature: 0|1, user: "u"|<object>}.
TemperatureValues == {PyInt("0"), PyInt("1")}

UserValues == {PyStr("u"), PyObj("o")}

KwargsDicts ==
    {<<>>}
    \cup {<<Item("temperature", t)>> : t \in TemperatureValues}
    \cup {<<Item("user", u)>> : u \in UserValues}
    \cup {<<Item("temperature", t), Item("user", u)>> :
              t \in TemperatureValues, u \in UserValues}
    \cup {<<Item("user", u), Item("temperature", t)>> :
              t \in TemperatureValues, u \in UserValues}

Request(model, messages, response_format, kwargs) ==
    [model |-> model, messages |-> messages,
     response_format |-> response_format, kwargs |-> kwargs]

AllRequests ==
    {Request(m, ms, rf, kw) :
        m \in Models, ms \in MessageLists, rf \in ResponseFormats, kw \in KwargsDicts}

\* ---------------------------------------------------------- json.dumps

Quote(s) == "'" \o s \o "'"

\* Lexicographic order of the dict keys that occur (Python str comparison).
KeyOrder ==
    <<"content", "messages", "model", "response_format", "role",
      "temperature", "title", "type", "user">>

\* sort_keys=False: the items as inserted
UnsortedItems(items) == items

\* sort_keys=True: the items by ascending key
SortedItems(items) ==
    LET present == {items[i].k : i \in 1..Len(items)}
        keys    == SelectSeq(KeyOrder, LAMBDA k : k \in present)
        at(k)   == CHOOSE i \in 1..Len(items) : items[i].k = k
    IN  [j \in 1..Len(keys) |-> items[at(keys[j])]]

RECURSIVE JoinTokens(_, _)
JoinTokens(parts, sep) ==
    IF Len(parts) = 0 THEN <<>>
    ELSE IF Len(parts) = 1 THEN parts[1]
    ELSE parts[1] \o <<sep>> \o JoinTokens(Tail(parts), sep)

\* A dict whose values are already encoded, written with its keys sorted.
DumpsDict(items) ==
    LET sorted == SortedItems(items)
        parts  == [j \in 1..Len(sorted) |->
                      <<Quote(sorted[j].k), ":">> \o sorted[j].v]
    IN  <<"{">> \o JoinTokens(parts, ",") \o <<"}">>

DumpsStr(s) == <<Quote(s)>>

\* int -> bare digits, str -> quoted text (so 1 and "1" differ)
DumpsScalar(v) == IF v.t = "int" THEN <<v.s>> ELSE DumpsStr(v.s)

DumpsMessage(m) ==
    DumpsDict(<<Item("role", DumpsStr(m.role)), Item("content", DumpsStr(m.content))>>)

\* a list keeps its order
DumpsMessages(ms) ==
    <<"[">> \o JoinTokens([i \in 1..Len(ms) |-> DumpsMessage(ms[i])], ",") \o <<"]">>

\* response_format.model_json_schema(): the class's JSON schema, as a dict
ModelJsonSchema(rf) ==
    <<Item("title", DumpsStr(rf)), Item("type", DumpsStr("object"))>>

\* the structured branch is never taken
NeverTruthy(response_format) == FALSE

\* `if response_format:` -- the truth value of the argument: None is falsy,
\* a class object is truthy.
Truthy(response_format) == response_format \in SchemaClasses

\* json.dumps raises TypeError on a value it has no encoder for
Serializable(kwargs) == \A i \in 1..Len(kwargs) : kwargs[i].v.t # "obj"

\* ------------------------------------------------------ cache.py: keys

\* the digest of a text; distinct texts are taken to have distinct digests
md5(text) == <<"md5">> \o text

\* f"{key_name}__{kwargs_hash}": the digest has a fixed length, so the pair
\* (key_name, digest) determines the string and conversely.
make_cache_key(key_name, params) ==
    LET kwargs_string == DumpsDict(params)
        kwargs_hash   == md5(kwargs_string)
    IN  [key_name |-> key_name, hash |-> kwargs_hash]

\* base_params without the schema entry
base_params_no_schema(model, messages, response_format, kwargs) ==
    <<Item("model", DumpsStr(model)), Item("messages", DumpsMessages(messages))>>
    \o [i \in 1..Len(kwargs) |-> Item(kwargs[i].k, DumpsScalar(kwargs[i].v))]

\* {"model": model, "messages": messages, **kwargs}, then
\* base_params["response_format"] = schema when response_format is truthy
base_params(model, messages, response_format, kwargs) ==
    <<Item("model", DumpsStr(model)), Item("messages", DumpsMessages(messages))>>
    \o [i \in 1..Len(kwargs) |-> Item(kwargs[i].k, DumpsScalar(kwargs[i].v))]
    \o (IF Truthy(response_format)
        THEN <<Item("response_format", DumpsDict(ModelJsonSchema(response_format)))>>
        ELSE <<>>)

\* one prefix for both kinds of request
key_prefix_plain(response_format) == "openai_chat_completion"

key_prefix(response_format) ==
    IF Truthy(response_format)
    THEN "openai_chat_completion_structured"
    ELSE "openai_chat_completion"

\* Defined for serializable kwargs; otherwise json.dumps raises TypeError.
make_chat_completion_key(model, messages, response_format, kwargs) ==
    make_cache_key(key_prefix(response_format),
                   base_params(model, messages, response_format, kwargs))

NoKey == [key_name |-> "", hash |-> <<>>]

\* ------------------------------------------------------- completion objects

\* message.parsed: an instance of a schema class, a plain dict (as json.loads
\* yields), None, or no such attribute (ChatCompletionMessage has none).
\* shape names the schema the data conforms to.
Parsed(cls, shape, val) == [cls |-> cls, shape |-> shape, val |-> val]

ParsedNone == Parsed("NoneType", "", "")

ParsedAbsent == Parsed("absent", "", "")

Choice(content, refusal, parsed) ==
    [content |-> content, refusal |-> refusal, parsed |-> parsed]

Completion(type, choices) == [type |-> type, choices |-> choices]

NoCompletion == Completion("none", <<>>)

\* What client.chat.completions.create may return for a request.
CreateResults ==
    {Completion("ChatCompletion", <<Choice("a", None, ParsedAbsent)>>),
     Completion("ChatCompletion",
                <<Choice("b", None, ParsedAbsent), Choice("a", None, ParsedAbsent)>>)}

\* What client.beta.chat.completions.parse may return for a schema class:
\* parsed instances of that class, and refusals without a parsed object.
ParseResults(response_format) ==
    {Completion("ParsedChatCompletion",
                <<Choice("a", None, Parsed(response_format, response_format, "a"))>>),
     Completion("ParsedChatCompletion",
                <<Choice(None, "no", ParsedNone),
                  Choice("b", None, Parsed(response_format, response_format, "b"))>>)}

\* The provider errors the upstream call may raise.
UpstreamErrors == {"timeout", "bad request"}

NoError == [type |-> "", msg |-> ""]

\* raise APICallError(f"API call failed: {str(e)}") from e
APICallError(e) == [type |-> "APICallError", msg |-> "API call failed: " \o e]

\* APICallError derives from Exception, so `backoff.on_exception(.., Exception)`
\* catches it.
IsException(error) == error.type \in {"APICallError"}

TypeError == [type |-> "TypeError", msg |-> "Object is not JSON serializable"]

ValidationError == [type |-> "ValidationError", msg |-> "validation failed"]

\* json.loads of a str that is no JSON document
JSONDecodeError == [type |-> "JSONDecodeError", msg |-> "Expecting value"]

\* json.loads of a value that is no str, bytes or bytearray
JsonTypeError == [type |-> "TypeError", msg |-> "the JSON object must be str"]

\* completion.json(): the document; an object's class is not part of it, a
\* parsed instance is written as a plain mapping, an absent attribute is omitted.
DumpParsed(parsed) ==
    IF parsed.cls \in {"NoneType", "absent"} THEN parsed
    ELSE Parsed("dict", parsed.shape, parsed.val)

\* A stored value: the text of a completion document with its choices, or
\* another Python value (doc names it).
Payload(doc, choices) == [doc |-> doc, choices |-> choices]

ToJson(completion) ==
    Payload("completion", [i \in 1..Len(completion.choices) |->
        Choice(completion.choices[i].content,
               completion.choices[i].refusal,
               DumpParsed(completion.choices[i].parsed))])

\* ChatCompletion.model_validate(json.loads(cached_value))
ValidateChatCompletion(payload) ==
    Completion("ChatCompletion",
        [i \in 1..Len(payload.choices) |->
            Choice(payload.choices[i].content, payload.choices[i].refusal,
                   ParsedAbsent)])

\* ParsedChatCompletion.model_validate(json.loads(cached_value)): parsed is
\* Optional with default None and of no concrete type, so a mapping stays one.
ValidateParsedChatCompletion(payload) ==
    Completion("ParsedChatCompletion",
        [i \in 1..Len(payload.choices) |->
            Choice(payload.choices[i].content, payload.choices[i].refusal,
                   IF payload.choices[i].parsed.cls = "absent"
                   THEN ParsedNone
                   ELSE payload.choices[i].parsed)])

\* `not choice.message.refusal`: None and "" are falsy
RefusalSet(choice) == choice.refusal \notin {None, ""}

\* response_format.model_validate(parsed) succeeds on data of the schema's shape
SchemaAccepts(response_format, parsed) ==
    parsed.cls \in {"dict", response_format} /\ parsed.shape = response_format

\* every choice is validated, a refusal too
AlwaysValidate(choice) == TRUE

\* if not choice.message.refusal:
ShouldValidate(choice) == ~RefusalSet(choice)

\* the loop body is skipped: parsed stays what deserialization gave
KeepParsed(response_format, choice) == choice

\* choice.message.parsed = response_format.model_validate(choice.message.parsed)
\* for a choice without refusal
Revalidate(response_format, choice) ==
    IF ShouldValidate(choice)
    THEN Choice(choice.content, choice.refusal,
                Parsed(response_format, choice.parsed.shape, choice.parsed.val))
    ELSE choice

\* Whether the hit path's loop raises for this deserialized completion.
RevalidateFails(response_format, completion) ==
    \E i \in 1..Len(completion.choices) :
        /\ ShouldValidate(completion.choices[i])
        /\ ~SchemaAccepts(response_format, completion.choices[i].parsed)

\* The choices the loop passes to response_format.model_validate: it goes
\* through the choices in order and stops at the first that raises.
ValidatedChoices(response_format, completion) ==
    {i \in 1..Len(completion.choices) :
        /\ ShouldValidate(completion.choices[i])
        /\ \A j \in 1..(i - 1) :
               ShouldValidate(completion.choices[j]) =>
                   SchemaAccepts(response_format, completion.choices[j].parsed)}

\* The hit path of get_completion: the result, given that nothing raises.
HitCompletion(is_structured, response_format, cached_value) ==
    IF is_structured
    THEN LET completion == ValidateParsedChatCompletion(cached_value)
         IN  Completion(completion.type,
                 [i \in 1..Len(completion.choices) |->
                     Revalidate(response_format, completion.choices[i])])
    ELSE ValidateChatCompletion(cached_value)

\* What the hit path raises for a stored value: json.loads, then
\* model_validate of the document, then the loop (structured only).
HitError(is_structured, response_format, cached_value) ==
    IF cached_value.doc = None THEN JsonTypeError
    ELSE IF cached_value.doc = "" THEN JSONDecodeError
    ELSE IF cached_value.doc # "completion" THEN ValidationError
    ELSE IF /\ is_structured
            /\ RevalidateFails(response_format,
                               ValidateParsedChatCompletion(cached_value))
         THEN ValidationError
         ELSE NoError

HitRaises(is_structured, response_format, cached_value) ==
    HitError(is_structured, response_format, cached_value) # NoError

\* The choices validated by a hit: none when deserialization raised before
\* the loop or the request has no schema.
HitValidated(is_structured, response_format, cached_value) ==
    IF is_structured /\ cached_value.doc = "completion"
    THEN ValidatedChoices(response_format,
                          ValidateParsedChatCompletion(cached_value))
    ELSE {}

\* What a call of extract_response did: returned an attribute of the first
\* choice's message, or raised.
Outcome(kind, attr, content, parsed, error) ==
    [kind |-> kind, attr |-> attr, content |-> content, parsed |-> parsed,
     error |-> error]

NotExtracted == Outcome("", "", None, ParsedAbsent, "")

\* isinstance(completion, ChatCompletion): the library declares
\* `class ParsedChatCompletion(ChatCompletion, ...)`, so a structured result
\* is an instance too.
IsInstanceChatCompletion(completion) ==
    completion.type \in {"ChatCompletion", "ParsedChatCompletion"}

\* hasattr(completion, 'choices')
HasAttrChoices(completion) ==
    completion.type \in {"ChatCompletion", "ParsedChatCompletion", "SimpleNamespace"}

Returns(attr, choice) ==
    IF attr = "content"
    THEN Outcome("return", attr, choice.content, ParsedAbsent, "")
    ELSE Outcome("return", attr, None, choice.parsed, "")

Raises(error) == Outcome("raise", "", None, ParsedAbsent, error)

\* extract_response(completion); choices[0] of an empty list raises IndexError
extract_response(completion) ==
    IF IsInstanceChatCompletion(completion)
    THEN IF completion.choices = <<>>
         THEN Raises("IndexError")
         ELSE Returns("content", completion.choices[1])
    ELSE IF HasAttrChoices(completion) /\ completion.choices # <<>>
         THEN Returns("parsed", completion.choices[1])
         ELSE Raises("ValueError")

\* is_structured = response_format is not None
IsStructured(response_format) == response_format # None

\* ------------------------------------------------------------- the state

Calls == 1..MaxCalls

\* The upstream stub of a call fails on its first N attempts, or on all.
Forever == -1

Scripts == (0..MaxFail) \cup {Forever}

ReqU == Request("m1", <<MsgHi>>, None,
                <<Item("temperature", PyInt("0")), Item("user", PyStr("u"))>>)

\* ReqU with a schema
ReqS == Request("m1", <<MsgHi>>, "SchemaA",
                <<Item("temperature", PyInt("0")), Item("user", PyStr("u"))>>)

\* a request json.dumps cannot serialize
ReqBad == Request("m1", <<MsgHi>>, None, <<Item("user", PyObj("o"))>>)

\* The requests the modelled callers of get_completion issue.
CallRequests == {ReqU, ReqS, ReqBad}

VARIABLES
    pc,          \* call -> "idle" | "get" | "api" | "backoff" | "set" | "returned" | "raised"
                 \*         | "extracted"
    req,         \* call -> the arguments of get_completion
    script,      \* call -> how the upstream behaves for this call
    cache_key,   \* call -> the local cache_key
    path,        \* call -> "none" | "miss" | "hit": what the lookup observed
    attempts,    \* call -> upstream invocations made by the call
    succ,        \* call -> upstream invocations that returned a completion
    writes,      \* call -> store writes made by the call
    completion,  \* call -> the local completion (the value returned)
    err,         \* call -> the exception in flight or raised to the caller
    source,      \* call -> the call whose write a hit read (0: none)
    validated,   \* call -> the choices a hit passed to the schema's validation
    extracted,   \* call -> the outcome of extract_response on the result
    store,       \* the diskcache: key -> payload
    lastWriter,  \* key -> the call that wrote the entry
    kpc,         \* key derivation on its own: "off" | "start" | "one" | "both"
    r1, r2,      \* two requests
    k1, k2       \* their keys, NoKey before derivation or when it raised

vars == <<pc, req, script, cache_key, path, attempts, succ, writes, completion,
          err, source, validated, extracted, store, lastWriter, kpc, r1, r2,
          k1, k2>>

callVars == <<pc, req, script, cache_key, path, attempts, succ, writes,
              completion, err, source, validated, extracted, store, lastWriter>>

keyVars == <<kpc, r1, r2, k1, k2>>

EmptyStore == [k \in {} |-> NoCompletion]

InitLocals ==
    /\ pc = [c \in Calls |-> "idle"]
    /\ req = [c \in Calls |-> ReqU]
    /\ script = [c \in Calls |-> 0]
    /\ cache_key = [c \in Calls |-> NoKey]
    /\ path = [c \in Calls |-> "none"]
    /\ attempts = [c \in Calls |-> 0]
    /\ succ = [c \in Calls |-> 0]
    /\ writes = [c \in Calls |-> 0]
    /\ completion = [c \in Calls |-> NoCompletion]
    /\ err = [c \in Calls |-> NoError]
    /\ source = [c \in Calls |-> 0]
    /\ validated = [c \in Calls |-> {}]
    /\ extracted = [c \in Calls |-> NotExtracted]

InitCalls ==
    /\ InitLocals
    /\ store = EmptyStore
    /\ lastWriter = [k \in {} |-> 0]

Init ==
    /\ InitCalls
    /\ kpc = "off"
    /\ r1 = ReqU
    /\ r2 = ReqU
    /\ k1 = NoKey
    /\ k2 = NoKey

\* ------------------------------------------------------ cache.py: the store

\* the entry is added only when the key is absent (the store's add)
StoreAdd(s, key, val) ==
    IF key \in DOMAIN s THEN s
    ELSE [k \in DOMAIN s \cup {key} |-> IF k = key THEN val ELSE s[k]]

\* the store is emptied before the entry is written
StoreOnly(s, key, val) == [k \in {key} |-> val]

\* self.cache.set(key, val): the entry under key becomes val
StoreSet(s, key, val) ==
    [k \in DOMAIN s \cup {key} |-> IF k = key THEN val ELSE s[k]]

\* self.cache.get(key, default)
CacheGet(s, key, default) == IF key \in DOMAIN s THEN s[key] ELSE default

\* self.CACHE_MISS_SENTINEL = object(): a value no stored payload is
CACHE_MISS_SENTINEL == Payload("<object>", <<>>)

\* every lookup is taken for a miss
AlwaysMiss(cached_value) == TRUE

\* a falsy value is taken for a miss too (`if not cached_value`)
IsMissOrFalsy(cached_value) ==
    cached_value = CACHE_MISS_SENTINEL \/ cached_value.doc \in {"", None}

\* cached_value is self.CACHE_MISS_SENTINEL
IsMiss(cached_value) == cached_value = CACHE_MISS_SENTINEL

\* like GetAsync, but the read takes the entry out of the store (a pop)
GetAsyncPop(c) ==
    /\ pc[c] = "get"
    /\ IF cache_key[c] \notin DOMAIN store
       THEN /\ path' = [path EXCEPT ![c] = "miss"]
            /\ pc' = [pc EXCEPT ![c] = "api"]
            /\ UNCHANGED <<completion, err, source, store, lastWriter>>
       ELSE /\ path' = [path EXCEPT ![c] = "hit"]
            /\ source' = [source EXCEPT ![c] = lastWriter[cache_key[c]]]
            /\ pc' = [pc EXCEPT ![c] = "returned"]
            /\ completion' = [completion EXCEPT ![c] =
                   HitCompletion(IsStructured(req[c].response_format),
                                 req[c].response_format, store[cache_key[c]])]
            /\ err' = err
            /\ store' = [k \in DOMAIN store \ {cache_key[c]} |-> store[k]]
            /\ lastWriter' = [k \in DOMAIN store \ {cache_key[c]} |-> lastWriter[k]]
    /\ UNCHANGED <<req, script, cache_key, attempts, succ, writes, keyVars, validated, extracted>>

\* ------------------------------------------- chat_completions.py: the calls

\* get_completion up to its first await: is_structured and cache_key.
\* The key derivation raises TypeError for unserializable parameters.
Begin(c, request, n) ==
    /\ req' = [req EXCEPT ![c] = request]
    /\ script' = [script EXCEPT ![c] = n]
    /\ IF Serializable(request.kwargs)
       THEN /\ cache_key' = [cache_key EXCEPT ![c] =
                    make_chat_completion_key(
                        request.model, request.messages,
                        IF IsStructured(request.response_format)
                        THEN request.response_format ELSE None,
                        request.kwargs)]
            /\ pc' = [pc EXCEPT ![c] = "get"]
            /\ err' = err
       ELSE /\ cache_key' = cache_key
            /\ pc' = [pc EXCEPT ![c] = "raised"]
            /\ err' = [err EXCEPT ![c] = TypeError]
    /\ UNCHANGED <<path, attempts, succ, writes, completion, source, store,
                   lastWriter, keyVars, validated, extracted>>

\* A caller starts a call while others may be in flight.
Call(c) ==
    /\ pc[c] = "idle"
    /\ \A d \in 1..(c - 1) : pc[d] # "idle"
    /\ \E request \in CallRequests, n \in Scripts : Begin(c, request, n)

Finished(c) == pc[c] \in {"returned", "raised", "extracted"}

\* A caller starts a call after awaiting every earlier one.
CallSeq(c) ==
    /\ pc[c] = "idle"
    /\ \A d \in 1..(c - 1) : Finished(d)
    /\ \E request \in CallRequests, n \in Scripts : Begin(c, request, n)

\* like GetAsync, but a stored value that cannot be deserialized is dropped
\* and the call goes on to the upstream as on a miss
GetAsyncRefetch(c) ==
    /\ pc[c] = "get"
    /\ LET is_structured == IsStructured(req[c].response_format)
           cached_value  == CacheGet(store, cache_key[c], CACHE_MISS_SENTINEL)
       IN  IF IsMiss(cached_value)
           THEN /\ path' = [path EXCEPT ![c] = "miss"]
                /\ pc' = [pc EXCEPT ![c] = "api"]
                /\ UNCHANGED <<completion, source>>
           ELSE /\ path' = [path EXCEPT ![c] = "hit"]
                /\ source' = [source EXCEPT ![c] = lastWriter[cache_key[c]]]
                /\ IF HitRaises(is_structured, req[c].response_format, cached_value)
                   THEN /\ pc' = [pc EXCEPT ![c] = "api"]
                        /\ completion' = completion
                   ELSE /\ pc' = [pc EXCEPT ![c] = "returned"]
                        /\ completion' = [completion EXCEPT ![c] =
                               HitCompletion(is_structured, req[c].response_format,
                                             cached_value)]
    /\ UNCHANGED <<req, script, cache_key, attempts, succ, writes, err, store,
                   lastWriter, keyVars, validated, extracted>>

\* await self.cache.get_async(cache_key, default=CACHE_MISS_SENTINEL) and the
\* branch on it; the hit path runs to its return without another await.
GetAsync(c) ==
    /\ pc[c] = "get"
    /\ LET is_structured == IsStructured(req[c].response_format)
           cached_value  == CacheGet(store, cache_key[c], CACHE_MISS_SENTINEL)
       IN  IF IsMiss(cached_value)
           THEN /\ path' = [path EXCEPT ![c] = "miss"]
                /\ pc' = [pc EXCEPT ![c] = "api"]
                /\ UNCHANGED <<completion, err, source, validated>>
           ELSE /\ path' = [path EXCEPT ![c] = "hit"]
                /\ source' = [source EXCEPT ![c] = lastWriter[cache_key[c]]]
                /\ validated' = [validated EXCEPT ![c] =
                       HitValidated(is_structured, req[c].response_format,
                                    cached_value)]
                /\ IF HitRaises(is_structured, req[c].response_format, cached_value)
                   THEN /\ pc' = [pc EXCEPT ![c] = "raised"]
                        /\ err' = [err EXCEPT ![c] =
                               HitError(is_structured, req[c].response_format,
                                        cached_value)]
                        /\ completion' = completion
                   ELSE /\ pc' = [pc EXCEPT ![c] = "returned"]
                        /\ completion' = [completion EXCEPT ![c] =
                               HitCompletion(is_structured, req[c].response_format,
                                             cached_value)]
                        /\ err' = err
    /\ UNCHANGED <<req, script, cache_key, attempts, succ, writes, store,
                   lastWriter, keyVars, extracted>>

\* Whether the upstream fails on the call's next attempt.
NextAttemptFails(c) == script[c] = Forever \/ attempts[c] < script[c]

\* The attempt counter; it stops counting at MaxFail + 1 (a call whose upstream
\* fails forever keeps attempting).
Counted(n) == IF n < MaxFail + 1 THEN n + 1 ELSE n

\* the failure is swallowed and the call goes on to cache what it has
ApiCallFailsCached(c) ==
    /\ pc[c] = "api"
    /\ NextAttemptFails(c)
    /\ attempts' = [attempts EXCEPT ![c] = Counted(attempts[c])]
    /\ pc' = [pc EXCEPT ![c] = "set"]
    /\ UNCHANGED <<req, script, cache_key, path, succ, writes, completion, err,
                   source, store, lastWriter, keyVars, validated, extracted>>

\* _make_api_call's body raises: the provider error is wrapped.
ApiCallFails(c) ==
    /\ pc[c] = "api"
    /\ NextAttemptFails(c)
    /\ attempts' = [attempts EXCEPT ![c] = Counted(attempts[c])]
    /\ \E e \in UpstreamErrors : err' = [err EXCEPT ![c] = APICallError(e)]
    /\ pc' = [pc EXCEPT ![c] = "backoff"]
    /\ UNCHANGED <<req, script, cache_key, path, succ, writes, completion,
                   source, store, lastWriter, keyVars, validated, extracted>>

\* _make_api_call's body returns what parse (structured) or create returned.
ApiCallReturns(c) ==
    /\ pc[c] = "api"
    /\ ~NextAttemptFails(c)
    /\ attempts' = [attempts EXCEPT ![c] = Counted(attempts[c])]
    /\ succ' = [succ EXCEPT ![c] = succ[c] + 1]
    /\ \E result \in (IF IsStructured(req[c].response_format)
                      THEN ParseResults(req[c].response_format)
                      ELSE CreateResults) :
           completion' = [completion EXCEPT ![c] = result]
    /\ pc' = [pc EXCEPT ![c] = "set"]
    /\ UNCHANGED <<req, script, cache_key, path, writes, err, source, store,
                   lastWriter, keyVars, validated, extracted>>

\* the decorator gives up after the first failure and re-raises
BackoffGiveUp(c) ==
    /\ pc[c] = "backoff"
    /\ pc' = [pc EXCEPT ![c] = "raised"]
    /\ UNCHANGED <<req, script, cache_key, path, attempts, succ, writes,
                   completion, err, source, store, lastWriter, keyVars, validated, extracted>>

\* the decorator has a giveup predicate: a bad request is not retried
BackoffClassify(c) ==
    /\ pc[c] = "backoff"
    /\ IF err[c] # APICallError("bad request")
       THEN /\ pc' = [pc EXCEPT ![c] = "api"]
            /\ err' = [err EXCEPT ![c] = NoError]
       ELSE /\ pc' = [pc EXCEPT ![c] = "raised"]
            /\ err' = err
    /\ UNCHANGED <<req, script, cache_key, path, attempts, succ, writes,
                   completion, source, store, lastWriter, keyVars, validated,
                   extracted>>

\* @backoff.on_exception(backoff.expo, Exception): no max_tries, no max_time,
\* no giveup; an exception that is an Exception is caught, the wait is slept
\* and the body is called again; any other propagates to the caller.
Backoff(c) ==
    /\ pc[c] = "backoff"
    /\ IF IsException(err[c])
       THEN /\ pc' = [pc EXCEPT ![c] = "api"]
            /\ err' = [err EXCEPT ![c] = NoError]
       ELSE /\ pc' = [pc EXCEPT ![c] = "raised"]
            /\ err' = err
    /\ UNCHANGED <<req, script, cache_key, path, attempts, succ, writes,
                   completion, source, store, lastWriter, keyVars, validated, extracted>>

\* await self.cache.set_async(cache_key, completion.json()); return completion
SetAsync(c) ==
    /\ pc[c] = "set"
    /\ store' = StoreSet(store, cache_key[c], ToJson(completion[c]))
    /\ lastWriter' = [k \in DOMAIN lastWriter \cup {cache_key[c]} |->
                          IF k = cache_key[c] THEN c ELSE lastWriter[k]]
    /\ writes' = [writes EXCEPT ![c] = writes[c] + 1]
    /\ pc' = [pc EXCEPT ![c] = "returned"]
    /\ UNCHANGED <<req, script, cache_key, path, attempts, succ, completion,
                   err, source, keyVars, validated, extracted>>

\* One step of a call that has been started.
Step(c) ==
    \/ GetAsync(c)
    \/ ApiCallFails(c)
    \/ ApiCallReturns(c)
    \/ Backoff(c)
    \/ SetAsync(c)

\* Any number of calls in flight at once.
Next == \E c \in Calls : Call(c) \/ Step(c)

Spec == Init /\ [][Next]_vars

\* Each call is awaited before the next is made.
NextSeq == \E c \in Calls : CallSeq(c) \/ Step(c)

SeqSpec == Init /\ [][NextSeq]_vars

\* The event loop resumes every coroutine that can run: a started call's
\* pending step is eventually taken. Starting a call is the caller's choice.
FairSeqSpec == SeqSpec /\ \A c \in Calls : WF_vars(Step(c))

\* ------------------------------------------ key derivation on two requests

InitKey ==
    /\ InitCalls
    /\ kpc = "start"
    /\ r1 \in AllRequests
    /\ r2 = r1
    /\ k1 = NoKey
    /\ k2 = NoKey

Changed(request) ==
    /\ kpc = "start"
    /\ r2' = request
    /\ kpc' = "changed"
    /\ UNCHANGED <<callVars, r1, k1, k2>>

ChangeModel == \E m \in Models : Changed([r1 EXCEPT !.model = m])

ChangeMessages == \E ms \in MessageLists : Changed([r1 EXCEPT !.messages = ms])

ChangeSchema == \E rf \in ResponseFormats : Changed([r1 EXCEPT !.response_format = rf])

ChangeKwargs == \E kw \in KwargsDicts : Changed([r1 EXCEPT !.kwargs = kw])

KeyOrNone(request) ==
    IF Serializable(request.kwargs)
    THEN make_chat_completion_key(request.model, request.messages,
                                  request.response_format, request.kwargs)
    ELSE NoKey

\* make_chat_completion_key applied to both requests
DeriveKeys ==
    /\ kpc = "changed"
    /\ k1' = KeyOrNone(r1)
    /\ k2' = KeyOrNone(r2)
    /\ kpc' = "derived"
    /\ UNCHANGED <<callVars, r1, r2>>

NextKey == ChangeModel \/ ChangeMessages \/ ChangeSchema \/ ChangeKwargs \/ DeriveKeys

KeySpec == InitKey /\ [][NextKey]_vars

\* ------------------------------- chat_completions.py: extract_response

\* The caller hands the result of its get_completion call to extract_response.
Extract(c) ==
    /\ pc[c] = "returned"
    /\ extracted' = [extracted EXCEPT ![c] = extract_response(completion[c])]
    /\ pc' = [pc EXCEPT ![c] = "extracted"]
    /\ UNCHANGED <<req, script, cache_key, path, attempts, succ, writes,
                   completion, err, source, validated, store, lastWriter,
                   keyVars>>

\* Objects a caller may pass to extract_response that no get_completion call
\* of the model returns: completions without choices, an object that only has
\* a choices attribute, an object without one.
OtherObjects ==
    {Completion("ChatCompletion", <<>>),
     Completion("ParsedChatCompletion", <<>>),
     Completion("SimpleNamespace", <<>>),
     Completion("SimpleNamespace",
                <<Choice("a", None, Parsed("SchemaA", "SchemaA", "a"))>>),
     Completion("dict", <<>>)}

\* extract_response is public: a caller applies it to an object of its own.
ExtractDirect(c) ==
    /\ pc[c] = "idle"
    /\ \A d \in 1..(c - 1) : Finished(d)
    /\ \E object \in OtherObjects :
        /\ completion' = [completion EXCEPT ![c] = object]
        /\ extracted' = [extracted EXCEPT ![c] = extract_response(object)]
    /\ pc' = [pc EXCEPT ![c] = "extracted"]
    /\ UNCHANGED <<req, script, cache_key, path, attempts, succ, writes, err,
                   source, validated, store, lastWriter, keyVars>>

\* ------------------------------------- calls on a store that is not empty

\* The directory outlives the process and set_async is public: an entry may
\* hold any value. Stored under a key of the modelled requests: "", None, a
\* JSON document that is no completion, and completion documents (with or
\* without parsed data, of either schema, without choices, and a refusal
\* that carries data of another schema).
ForeignPayloads ==
    {Payload("", <<>>), Payload(None, <<>>), Payload("{}", <<>>),
     Payload("completion", <<>>),
     Payload("completion",
             <<Choice(None, "no", Parsed("dict", "SchemaB", "x")),
               Choice("a", None, Parsed("dict", "SchemaA", "a"))>>)}
    \cup {ToJson(result) : result \in CreateResults}
    \cup {ToJson(result) : result \in ParseResults("SchemaA")}
    \cup {ToJson(result) : result \in ParseResults("SchemaB")}

\* The keys get_completion derives for the modelled requests.
PreKeys == {KeyOrNone(ReqU), KeyOrNone(ReqS)}

\* The store at start: empty, or one entry that no modelled call wrote.
PreStores ==
    {EmptyStore} \cup
    {[k \in {key} |-> payload] : key \in PreKeys, payload \in ForeignPayloads}

InitPre ==
    /\ InitLocals
    /\ store \in PreStores
    /\ lastWriter = [k \in DOMAIN store |-> 0]
    /\ kpc = "off"
    /\ r1 = ReqU
    /\ r2 = ReqU
    /\ k1 = NoKey
    /\ k2 = NoKey

\* Calls made one after the other; a caller may extract the response.
NextPre ==
    \E c \in Calls : CallSeq(c) \/ Step(c) \/ Extract(c) \/ ExtractDirect(c)

PreSpec == InitPre /\ [][NextPre]_vars

\* ------------------------------------------------------------- the claims

Started(c) == pc[c] # "idle"

\* The earliest started call that was given the same request as call c.
FirstWith(c) ==
    CHOOSE d \in Calls :
        /\ Started(d) /\ req[d] = req[c]
        /\ \A e \in 1..(d - 1) : ~(Started(e) /\ req[e] = req[c])

\* The per-choice content a caller can read from a returned completion.
ContentOf(result) ==
    [i \in 1..Len(result.choices) |->
        <<result.choices[i].content, result.choices[i].parsed>>]

\* C1 (SeqSpec): with calls made one after the other from an empty store, the
\* first call with a request, once it has returned, made exactly one
\* successful upstream call and one store write; every later call with the
\* same request, once its lookup is done, has returned with no upstream call
\* and no write, whatever its upstream would do, and with the first call's
\* content.
C1_CacheTransparency ==
    \A c \in Calls :
        Started(c) =>
            LET first == FirstWith(c)
            IN  IF c = first
                THEN pc[c] = "returned" =>
                        /\ path[c] = "miss"
                        /\ succ[c] = 1
                        /\ writes[c] = 1
                ELSE (pc[first] = "returned" /\ pc[c] # "get") =>
                        /\ pc[c] = "returned"
                        /\ path[c] = "hit"
                        /\ attempts[c] = 0
                        /\ writes[c] = 0
                        /\ ContentOf(completion[c]) = ContentOf(completion[first])

\* A second call with the request of a returned first call has returned although
\* its upstream fails on every attempt.
C1_Witness ==
    \E c \in Calls :
        /\ Started(c) /\ FirstWith(c) # c
        /\ pc[FirstWith(c)] = "returned" /\ attempts[FirstWith(c)] >= 1
        /\ script[c] = Forever
        /\ pc[c] = "returned"

\* C2 (Spec): every store entry is the serialization of a completion that a
\* successful upstream call of a call with that key returned; a call that has
\* written had a successful upstream call before, and a call with no
\* successful upstream call has written nothing.
C2_OnlySuccessfulResultsStored ==
    /\ \A k \in DOMAIN store :
          \E c \in Calls :
              /\ cache_key[c] = k
              /\ succ[c] = 1
              /\ writes[c] = 1
              /\ store[k] = ToJson(completion[c])
    /\ \A c \in Calls :
          /\ writes[c] <= succ[c]
          /\ pc[c] \in {"api", "backoff"} => writes[c] = 0

\* A call failed at least once, then succeeded and wrote; the entry is its result.
C2_Witness ==
    \E c \in Calls :
        /\ attempts[c] >= 2
        /\ writes[c] = 1
        /\ cache_key[c] \in DOMAIN store
        /\ store[cache_key[c]] = ToJson(completion[c])

\* C3 (FairSeqSpec): a call that missed and whose upstream fails on its first N
\* attempts and succeeds on attempt N+1 eventually returns, and a call that
\* returned after a miss invoked the upstream exactly N+1 times.
C3_RetryUntilSuccess ==
    /\ [](\A c \in Calls :
            (pc[c] = "returned" /\ path[c] = "miss") =>
                /\ script[c] \in 0..MaxFail
                /\ attempts[c] = script[c] + 1
                /\ succ[c] = 1)
    /\ \A c \in Calls :
          (path[c] = "miss" /\ script[c] # Forever) ~> (pc[c] = "returned")

\* A call whose upstream failed MaxFail times has returned.
C3_Witness ==
    \E c \in Calls :
        /\ pc[c] = "returned" /\ path[c] = "miss"
        /\ script[c] = MaxFail
        /\ attempts[c] = MaxFail + 1

\* C4 as claimed (FairSeqSpec): a call that missed and whose upstream keeps
\* failing eventually fails with the APICallError.
C4_FailsWithUpstreamError ==
    \A c \in Calls :
        (path[c] = "miss" /\ script[c] = Forever)
            ~> (pc[c] = "raised" /\ err[c].type = "APICallError")

\* C4 as amended (FairSeqSpec): a call that missed and whose upstream keeps
\* failing never terminates: it is attempting or backing off, has no
\* completion and has written nothing; each failure is held as an
\* APICallError with the provider's message while the call backs off, and no
\* call ever raises an APICallError to its caller.
C4_NeverSurfaces ==
    \A c \in Calls :
        /\ pc[c] = "raised" => err[c].type # "APICallError"
        /\ pc[c] = "backoff" => \E e \in UpstreamErrors : err[c] = APICallError(e)
        /\ (path[c] = "miss" /\ script[c] = Forever) =>
              /\ pc[c] \in {"api", "backoff"}
              /\ completion[c] = NoCompletion
              /\ succ[c] = 0
              /\ writes[c] = 0

\* A call whose upstream keeps failing is about to attempt again after
\* MaxFail + 1 failed attempts.
C4_Witness ==
    \E c \in Calls :
        /\ path[c] = "miss" /\ script[c] = Forever
        /\ attempts[c] = MaxFail + 1
        /\ pc[c] = "api"

\* C5 (Spec): two calls with the same key that both observed a miss have, once
\* both returned, each invoked the upstream successfully and each written the
\* store, and the store holds under that key the serialization written by the
\* call that wrote last.
C5_BothMissBothWrite ==
    \A c, d \in Calls :
        (/\ c # d
         /\ cache_key[c] = cache_key[d]
         /\ path[c] = "miss" /\ path[d] = "miss"
         /\ pc[c] = "returned" /\ pc[d] = "returned") =>
            LET k == cache_key[c]
            IN  /\ succ[c] = 1 /\ succ[d] = 1
                /\ attempts[c] >= 1 /\ attempts[d] >= 1
                /\ writes[c] = 1 /\ writes[d] = 1
                /\ k \in DOMAIN store
                /\ cache_key[lastWriter[k]] = k
                /\ path[lastWriter[k]] = "miss"
                /\ store[k] = ToJson(completion[lastWriter[k]])

\* Two calls with one key both missed and returned different completions; the
\* entry is the later writer's and not the other's.
C5_Witness ==
    \E c, d \in Calls :
        /\ c # d
        /\ cache_key[c] = cache_key[d]
        /\ path[c] = "miss" /\ path[d] = "miss"
        /\ pc[c] = "returned" /\ pc[d] = "returned"
        /\ completion[c] # completion[d]
        /\ lastWriter[cache_key[c]] = d
        /\ store[cache_key[c]] = ToJson(completion[d])
        /\ store[cache_key[c]] # ToJson(completion[c])

\* C6 as claimed (Spec): no step changes or removes an entry the store holds.
C6_EntriesNeverChange ==
    [][\A k \in DOMAIN store : k \in DOMAIN store' /\ store'[k] = store[k]]_vars

\* C6 as amended (Spec): no step removes an entry; an entry appears or changes
\* only by the write of a call that observed a miss for that key before, and
\* becomes that call's serialized completion; a call that observed a hit
\* writes nothing.
C6_OnlyMissesWrite ==
    /\ [][\A k \in DOMAIN store' :
            (k \notin DOMAIN store \/ store'[k] # store[k]) =>
                \E c \in Calls :
                    /\ pc[c] = "set" /\ pc'[c] = "returned"
                    /\ path[c] = "miss"
                    /\ cache_key[c] = k
                    /\ store'[k] = ToJson(completion[c])]_vars
    /\ [][DOMAIN store \subseteq DOMAIN store']_vars
    /\ [](\A c \in Calls : path[c] = "hit" => writes[c] = 0)

\* An entry was overwritten with another value: of two calls that missed on
\* one key the first writer's serialization is no longer the entry, and a
\* third party reading now gets the second's.
C6_Witness ==
    \E c, d \in Calls :
        /\ c # d
        /\ cache_key[c] = cache_key[d]
        /\ writes[c] = 1 /\ writes[d] = 1
        /\ lastWriter[cache_key[c]] = c
        /\ ToJson(completion[d]) # store[cache_key[c]]

SameMapping(kwargs1, kwargs2) ==
    {kwargs1[i] : i \in 1..Len(kwargs1)} = {kwargs2[i] : i \in 1..Len(kwargs2)}

BothDerived ==
    /\ kpc = "derived"
    /\ Serializable(r1.kwargs)
    /\ Serializable(r2.kwargs)

Reverse(seq) == [i \in 1..Len(seq) |-> seq[Len(seq) + 1 - i]]

\* C7 (KeySpec): two requests with the same model, messages, schema and the
\* same extra-parameter mapping, in whatever insertion order, derive the same
\* key; two requests that differ only in the order of their messages derive
\* different keys.
C7_KeyIgnoresInsertionOrder ==
    BothDerived =>
        /\ (/\ r1.model = r2.model
            /\ r1.messages = r2.messages
            /\ r1.response_format = r2.response_format
            /\ SameMapping(r1.kwargs, r2.kwargs)) =>
                (k1 = k2 /\ k1 # NoKey)
        /\ (/\ r2 = [r1 EXCEPT !.messages = Reverse(r1.messages)]
            /\ r2.messages # r1.messages) =>
                k1.hash # k2.hash

\* Two extra parameters given in the two orders: one key.
C7_Witness ==
    /\ BothDerived
    /\ Len(r1.kwargs) = 2
    /\ r2.kwargs = Reverse(r1.kwargs)
    /\ r1 # r2
    /\ k1 = k2
    /\ k1 # NoKey

\* C8 as claimed (KeySpec): changing one field of a request, the key order
\* within the extra parameters included, changes the key.
C8_AnyChangeChangesKey ==
    (BothDerived /\ r1 # r2) => k1 # k2

\* The change is only the insertion order of the extra parameters.
OnlyReordered ==
    /\ r1.kwargs # r2.kwargs
    /\ SameMapping(r1.kwargs, r2.kwargs)
    /\ r2 = [r1 EXCEPT !.kwargs = r2.kwargs]

\* C8 as amended (KeySpec): changing the model, the content or order of the
\* messages, the schema, or the extra-parameter mapping (a value, or a
\* parameter added or removed) changes the key; changing only the insertion
\* order of the extra parameters leaves the key the same.
C8_ChangeChangesKeyButOrder ==
    (BothDerived /\ r1 # r2) =>
        IF OnlyReordered THEN k1 = k2 ELSE k1 # k2

\* The value of one extra parameter was changed and the keys differ.
C8_Witness ==
    /\ BothDerived
    /\ Len(r1.kwargs) = 2 /\ Len(r2.kwargs) = 2
    /\ r1.kwargs[1].k = r2.kwargs[1].k
    /\ r1.kwargs[1].v # r2.kwargs[1].v
    /\ r1.kwargs[2] = r2.kwargs[2]
    /\ k1 # k2
    /\ k1.key_name = k2.key_name

\* C9 (KeySpec): a request with a schema and the same request without one
\* derive keys that differ, in their prefix and in their digest.
C9_NamespaceSeparation ==
    (/\ BothDerived
     /\ r1.response_format # None
     /\ r2 = [r1 EXCEPT !.response_format = None]) =>
        /\ k1 # k2
        /\ k1.key_name # k2.key_name
        /\ k1.hash # k2.hash
        /\ k1.key_name = "openai_chat_completion_structured"
        /\ k2.key_name = "openai_chat_completion"

\* A structured request and its unstructured twin, both with keys.
C9_Witness ==
    /\ BothDerived
    /\ r1.response_format = "SchemaA"
    /\ r2 = [r1 EXCEPT !.response_format = None]
    /\ Len(r1.kwargs) = 2
    /\ k1 # NoKey /\ k2 # NoKey
    /\ k1 # k2

\* C10 (Spec): a completion returned on the hit path has the type, the
\* choices, the content and refusal of every choice and, for choices without
\* refusal, the parsed object of the completion that the call which wrote the
\* entry returned.
C10_HitEqualsMiss ==
    \A c \in Calls :
        (pc[c] = "returned" /\ path[c] = "hit") =>
            /\ source[c] \in Calls
            /\ LET hit  == completion[c]
                   miss == completion[source[c]]
               IN  /\ path[source[c]] = "miss"
                   /\ pc[source[c]] = "returned"
                   /\ hit.type = miss.type
                   /\ Len(hit.choices) = Len(miss.choices)
                   /\ \A i \in 1..Len(hit.choices) :
                         /\ hit.choices[i].content = miss.choices[i].content
                         /\ hit.choices[i].refusal = miss.choices[i].refusal
                         /\ ~RefusalSet(miss.choices[i]) =>
                               hit.choices[i].parsed = miss.choices[i].parsed

\* A structured hit returned a refusal choice and a parsed choice.
C10_Witness ==
    \E c \in Calls :
        /\ pc[c] = "returned" /\ path[c] = "hit"
        /\ IsStructured(req[c].response_format)
        /\ Len(completion[c].choices) = 2
        /\ RefusalSet(completion[c].choices[1])
        /\ completion[c].choices[2].parsed.cls = req[c].response_format

\* The completion a structured hit of call c deserialized, before the loop.
Deserialized(c) == ValidateParsedChatCompletion(store[cache_key[c]])

StructuredHit(c) ==
    /\ path[c] = "hit"
    /\ IsStructured(req[c].response_format)
    /\ store[cache_key[c]].doc = "completion"

\* C11 (PreSpec): on a structured cache hit no choice with its refusal set is
\* passed to the schema's validation; when the hit returns, a choice was
\* validated if and only if its refusal is not set, a choice with refusal set
\* is returned as deserialization gave it, and a choice without refusal
\* carries an instance of the request's schema.
C11_RefusalSkipsValidation ==
    \A c \in Calls :
        StructuredHit(c) =>
            /\ \A i \in validated[c] : ~RefusalSet(Deserialized(c).choices[i])
            /\ pc[c] \in {"returned", "extracted"} =>
                   \A i \in 1..Len(completion[c].choices) :
                       LET choice == Deserialized(c).choices[i]
                       IN  /\ i \in validated[c] <=> ~RefusalSet(choice)
                           /\ RefusalSet(choice) =>
                                  completion[c].choices[i] = choice
                           /\ ~RefusalSet(choice) =>
                                  completion[c].choices[i].parsed.cls =
                                      req[c].response_format

\* A structured hit returned a refusal that carries data its schema rejects,
\* next to a validated choice.
C11_Witness ==
    \E c \in Calls :
        /\ StructuredHit(c)
        /\ pc[c] = "returned"
        /\ validated[c] # {}
        /\ \E i \in 1..Len(completion[c].choices) :
               /\ RefusalSet(completion[c].choices[i])
               /\ completion[c].choices[i].parsed.cls = "dict"
               /\ ~SchemaAccepts(req[c].response_format,
                                 completion[c].choices[i].parsed)

\* The result of a get_completion call was handed to extract_response.
ExtractedResult(c) == pc[c] = "extracted" /\ path[c] \in {"miss", "hit"}

\* C12 (PreSpec): for the result of a get_completion call, from a miss or from
\* a hit, that has a choice, extract_response returns the content of the first
\* choice when the request had no schema and the parsed object of the first
\* choice when it had one.
C12_ExtractsContentOrParsed ==
    \A c \in Calls :
        (ExtractedResult(c) /\ completion[c].choices # <<>>) =>
            extracted[c] =
                Returns(IF IsStructured(req[c].response_format)
                        THEN "parsed" ELSE "content",
                        completion[c].choices[1])

\* C13 (PreSpec): for an object that is neither kind of completion and for a
\* completion without choices, extract_response raises ValueError and nothing
\* else, and returns no value.
C13_UnsupportedRaisesValueError ==
    \A c \in Calls :
        (/\ pc[c] = "extracted"
         /\ \/ completion[c].type \notin {"ChatCompletion", "ParsedChatCompletion"}
            \/ completion[c].choices = <<>>) =>
            extracted[c] = Raises("ValueError")

\* C14 (PreSpec): a call whose parameters cannot be serialized raises before
\* any store read, upstream call or store write; a hit whose stored value
\* cannot be deserialized or re-validated raises with no upstream call and no
\* store write; and the step in which a call raises leaves the store as it was.
C14_SerializationFailureIsFatal ==
    /\ [](\A c \in Calls :
            /\ (Started(c) /\ ~Serializable(req[c].kwargs)) =>
                   /\ pc[c] = "raised" /\ err[c] = TypeError
                   /\ path[c] = "none" /\ attempts[c] = 0 /\ writes[c] = 0
            /\ (/\ path[c] = "hit"
                /\ HitRaises(IsStructured(req[c].response_format),
                             req[c].response_format, store[cache_key[c]])) =>
                   /\ pc[c] = "raised"
                   /\ err[c] \in {JSONDecodeError, JsonTypeError, ValidationError}
                   /\ attempts[c] = 0 /\ writes[c] = 0)
    /\ [][\A c \in Calls :
            (pc[c] # "raised" /\ pc'[c] = "raised") =>
                store' = store /\ attempts'[c] = 0 /\ writes'[c] = 0]_vars

\* One call raised on its parameters, another on a stored value that is no
\* JSON text.
C14_Witness ==
    \E c, d \in Calls :
        /\ pc[c] = "raised" /\ err[c] = TypeError /\ path[c] = "none"
        /\ pc[d] = "raised" /\ err[d] = JSONDecodeError /\ path[d] = "hit"
        /\ store # EmptyStore

\* C15 (Spec): when a call that missed completes, the store right after its
\* write holds an entry under the call's key whose value is the serialization
\* of the returned result and deserializes without error for the request, no
\* other key was added or removed, and every entry under another key is what
\* it was.
C15_MissWritesOneEntry ==
    [][\A c \in Calls :
        (pc[c] = "set" /\ pc'[c] = "returned") =>
            /\ path[c] = "miss"
            /\ DOMAIN store' = DOMAIN store \cup {cache_key[c]}
            /\ store'[cache_key[c]] = ToJson(completion'[c])
            /\ ~HitRaises(IsStructured(req[c].response_format),
                          req[c].response_format, store'[cache_key[c]])
            /\ \A k \in DOMAIN store \ {cache_key[c]} : store'[k] = store[k]]_vars

\* A missed call has returned, its entry holds its result, and the store
\* holds an entry of another key too.
C15_Witness ==
    \E c \in Calls :
        /\ pc[c] = "returned" /\ path[c] = "miss" /\ writes[c] = 1
        /\ store[cache_key[c]] = ToJson(completion[c])
        /\ \E k \in DOMAIN store : k # cache_key[c]

\* C16 (FairSeqSpec): after every failed upstream attempt, whichever error it
\* raised, the call's next step is another upstream attempt and that attempt
\* is eventually made; a call that missed never ends, by raising or
\* returning, while its upstream keeps failing.
C16_RetriesWithoutCap ==
    /\ \A c \in Calls : \A e \in UpstreamErrors :
           (pc[c] = "backoff" /\ err[c] = APICallError(e)) ~> (pc[c] = "api")
    /\ [][\A c \in Calls :
            (pc[c] = "backoff" /\ pc'[c] # "backoff") =>
                pc'[c] = "api" /\ attempts'[c] = attempts[c]]_vars
    /\ [](\A c \in Calls :
            (path[c] = "miss" /\ script[c] = Forever) => ~Finished(c))

\* A call whose every attempt so far failed, the last with a bad request, is
\* waiting to attempt again.
C16_Witness ==
    \E c \in Calls :
        /\ script[c] = Forever
        /\ attempts[c] = MaxFail + 1
        /\ pc[c] = "backoff"
        /\ err[c] = APICallError("bad request")

\* C17 (PreSpec): the lookup of a call takes the miss path if and only if the
\* store has no entry under the call's key, and the hit path otherwise,
\* whatever the stored value is ("" and None included); a call that took the
\* hit path makes no upstream call and no write.
C17_MissIffNoEntry ==
    /\ [][\A c \in Calls :
            (pc[c] = "get" /\ pc'[c] # "get") =>
                /\ path'[c] = "miss" <=> cache_key[c] \notin DOMAIN store
                /\ path'[c] = "hit" <=> cache_key[c] \in DOMAIN store]_vars
    /\ [](\A c \in Calls :
            path[c] = "hit" =>
                /\ attempts[c] = 0 /\ succ[c] = 0 /\ writes[c] = 0
                /\ pc[c] \notin {"api", "backoff", "set"})

\* A call found None stored under its key and took the hit path.
C17_Witness ==
    \E c \in Calls :
        /\ path[c] = "hit"
        /\ store[cache_key[c]] = Payload(None, <<>>)
        /\ attempts[c] = 0

\* The key has the structured prefix and its digest covers a schema entry.
StructuredKey(key) ==
    /\ key.key_name = "openai_chat_completion_structured"
    /\ \E i \in 1..Len(key.hash) : key.hash[i] = Quote("response_format")

\* The key has the unstructured prefix and its digest covers no schema entry.
UnstructuredKey(key) ==
    /\ key.key_name = "openai_chat_completion"
    /\ \A i \in 1..Len(key.hash) : key.hash[i] # Quote("response_format")

====
